---------------------------- MODULE Spec2Model ----------------------------
(***************************************************************************)
(* The block-synchronisation heartbeat of the Bitcoin canister             *)
(* (rs/bitcoin/canister/src/heartbeat.rs).                                 *)
(*                                                                         *)
(* heartbeat(state, feature) drains every queued adapter response into the *)
(* block tree and then, when the feature is Enabled and no GetSuccessors   *)
(* request is in flight, builds a GetSuccessorsRequest from the unstable   *)
(* blocks and pushes it to the adapter queue.                              *)
(*                                                                         *)
(* heartbeat.rs is modelled from its code.  The collaborators it calls     *)
(* (store::insert_block, store::get_unstable_blocks,                       *)
(* store::main_chain_height and the adapter queues of the replicated       *)
(* state) are modelled from sections 3, 4.2 and 4.3 of the specification.  *)
(***************************************************************************)
EXTENDS Naturals, Sequences, FiniteSets

(***************************************************************************)
(* Bounds of the model.                                                    *)
(***************************************************************************)
\* Blocks carried by one GetSuccessorsResponse.
MaxBlocks == 2
\* Responses that may wait in the adapter queue between two ticks.
MaxResponses == 2
\* The request queue has capacity 1 (section 4.3: a push fails while a
\* request is outstanding) or this larger capacity.
MaxCapacity == 2
\* Members of the block tree (the root included) where a re-inserted block
\* is attached again; otherwise the deliverable blocks bound the tree.
MaxTree == 4

(***************************************************************************)
(* Hashes.  A hash value is the term <<prev, merkle, nonce>> of the header *)
(* it was computed from: two headers have the same hash only when they are *)
(* the same header.  On the wire a hash is a byte vector, modelled by its  *)
(* value and its width in bytes.                                           *)
(***************************************************************************)
\* Width, in bytes, that Hash::from_slice accepts.
HashLen == 32

\* The all-zero hash: the parent field of the genesis header.
ZeroHash == <<>>

\* bitcoin::Block::block_hash(): the hash of the block's header.
BlockHash(block) ==
    <<block.header.prev_blockhash, block.header.merkle_root, block.header.nonce>>

\* BlockHash::to_vec(): the 32 bytes of a hash.
ToVec(hash) == [val |-> hash, len |-> HashLen]

\* Hash::from_slice(bytes): Ok(hash) for a slice of HashLen bytes, Err
\* otherwise.
FromSlice(bytes) ==
    IF bytes.len = HashLen
    THEN [ok |-> TRUE, val |-> bytes.val]
    ELSE [ok |-> FALSE, val |-> ZeroHash]

(***************************************************************************)
(* The blocks the adapter may deliver (wire format).                       *)
(***************************************************************************)
WireTx(txidLen) ==
    [input |-> << [txid |-> [val |-> ZeroHash, len |-> txidLen], vout |-> 0] >>]

WireBlock(prev, prevLen, merkle, merkleLen, nonce, txidLen) ==
    [header |-> [prev_blockhash |-> [val |-> prev, len |-> prevLen],
                 merkle_root    |-> [val |-> merkle, len |-> merkleLen],
                 nonce          |-> nonce],
     txdata |-> << WireTx(txidLen) >>]

\* The root of the tree of the default state.
GenesisBlock ==
    [header |-> [prev_blockhash |-> ZeroHash, merkle_root |-> ZeroHash, nonce |-> 0],
     txdata |-> << >>]

GenesisHash == BlockHash(GenesisBlock)

\* A and A2 extend the root (a fork), B extends A.
WireA  == WireBlock(GenesisHash, HashLen, ZeroHash, HashLen, 1, HashLen)
WireA2 == WireBlock(GenesisHash, HashLen, ZeroHash, HashLen, 2, HashLen)
HashA  == <<GenesisHash, ZeroHash, 1>>
WireB  == WireBlock(HashA, HashLen, ZeroHash, HashLen, 1, HashLen)
HashB  == <<HashA, ZeroHash, 1>>
\* U names a parent that no deliverable block hashes to; its merkle root
\* carries the bytes of the root's hash.
UnknownHash == <<ZeroHash, ZeroHash, 7>>
WireU  == WireBlock(UnknownHash, HashLen, GenesisHash, HashLen, 1, HashLen)
\* Blocks with one hash field a byte short: the header's parent hash, a
\* transaction input's txid.
WireBadPrev == WireBlock(GenesisHash, HashLen - 1, ZeroHash, HashLen, 1, HashLen)
WireBadTxid == WireBlock(GenesisHash, HashLen, ZeroHash, HashLen, 1, HashLen - 1)

WellFormedBlocks == {WireA, WireA2, WireB, WireU}
MalformedBlocks  == {WireBadPrev, WireBadTxid}
WireBlocks       == WellFormedBlocks \cup MalformedBlocks

\* Sequences of at most n elements of S.
SeqUpTo(S, n) == UNION {[1..k -> S] : k \in 0..n}

(***************************************************************************)
(* Wire Translator: to_btc_transaction, to_btc_block.                      *)
(* Every Hash::from_slice(..).unwrap() panics on a slice of the wrong      *)
(* width; the result records that as ok = FALSE.                           *)
(***************************************************************************)
\* bitcoin::TxIn { previous_output: OutPoint { txid, vout }, .. }
TxIn(txid, vout) ==
    [ok |-> txid.ok, val |-> [txid |-> txid.val, vout |-> vout]]

ToBtcTxIn(x) == TxIn(FromSlice(x.txid), x.vout)

\* bitcoin::Transaction { input, .. }
BtcTransaction(ins) ==
    [ok  |-> \A i \in 1..Len(ins) : ins[i].ok,
     val |-> [input |-> [i \in 1..Len(ins) |-> ins[i].val]]]

ToBtcTransaction(transaction) ==
    BtcTransaction([i \in 1..Len(transaction.input) |->
                        ToBtcTxIn(transaction.input[i])])

\* bitcoin::BlockHeader { prev_blockhash, merkle_root, nonce, .. }
BlockHeader(prev_blockhash, merkle_root, nonce) ==
    [ok  |-> prev_blockhash.ok /\ merkle_root.ok,
     val |-> [prev_blockhash |-> prev_blockhash.val,
              merkle_root |-> merkle_root.val,
              nonce |-> nonce]]

\* A slip that parses prev_blockhash from the merkle_root bytes (and
\* merkle_root from the prev_blockhash bytes).
ToBtcHeaderSwapped(header) ==
    BlockHeader(FromSlice(header.merkle_root),
                FromSlice(header.prev_blockhash),
                header.nonce)

ToBtcHeader(header) ==
    BlockHeader(FromSlice(header.prev_blockhash),
                FromSlice(header.merkle_root),
                header.nonce)

\* bitcoin::Block { header, txdata }
BtcBlock(header, txs) ==
    [ok  |-> header.ok /\ \A i \in 1..Len(txs) : txs[i].ok,
     val |-> [header |-> header.val,
              txdata |-> [i \in 1..Len(txs) |-> txs[i].val]]]

ToBtcBlock(block) ==
    BtcBlock(ToBtcHeader(block.header),
             [i \in 1..Len(block.txdata) |-> ToBtcTransaction(block.txdata[i])])

(***************************************************************************)
(* Block Tree and UTXO Index (specification, sections 3 and 4.2).          *)
(* The tree is its member blocks in the order they were attached, the root *)
(* first; utxos is the hashes of the blocks whose transactions have been   *)
(* applied.  Section 4.2 does not say what insert does with a block that   *)
(* is already a member: both readings are explored (reinsert).             *)
(***************************************************************************)
ReinsertPolicies == {"ignore", "attach"}

HashesOf(blocks) == {BlockHash(blocks[i]) : i \in 1..Len(blocks)}

\* An insert that attaches without looking for the parent.
InsertBlockUnchecked(s, block, policy) ==
    [ok    |-> TRUE,
     tree  |-> Append(s.tree, block),
     utxos |-> Append(s.utxos, BlockHash(block))]

\* store::insert_block(state, block) -> Result<(), BlockDoesNotExtendTree>
InsertBlock(s, block, policy) ==
    IF block.header.prev_blockhash \notin HashesOf(s.tree)
    THEN [ok |-> FALSE, tree |-> s.tree, utxos |-> s.utxos]
    ELSE IF policy = "ignore" /\ BlockHash(block) \in HashesOf(s.tree)
         THEN [ok |-> TRUE, tree |-> s.tree, utxos |-> s.utxos]
         ELSE [ok    |-> TRUE,
               tree  |-> Append(s.tree, block),
               utxos |-> Append(s.utxos, BlockHash(block))]

\* store::get_unstable_blocks(state): every block of the tree, the root first.
\* An enumeration that leaves the root out.
GetUnstableBlocksAboveAnchor(blocks) == Tail(blocks)

GetUnstableBlocks(blocks) == blocks

\* Position of the first member whose hash is h (0: none).
IndexOfHash(blocks, h) ==
    IF h \in HashesOf(blocks)
    THEN CHOOSE i \in 1..Len(blocks) :
             /\ BlockHash(blocks[i]) = h
             /\ \A j \in 1..(i - 1) : BlockHash(blocks[j]) # h
    ELSE 0

\* Distance of member i from the root along parent links.
RECURSIVE DepthOf(_, _)
DepthOf(blocks, i) ==
    IF i <= 1
    THEN 0
    ELSE 1 + DepthOf(blocks, IndexOfHash(blocks, blocks[i].header.prev_blockhash))

Max(S) == CHOOSE x \in S : \A y \in S : y <= x

\* store::main_chain_height(state): height of the longest branch.
MainChainHeight(blocks) == Max({DepthOf(blocks, i) : i \in 1..Len(blocks)})

(***************************************************************************)
(* Adapter Queue (specification, sections 3 and 4.3).                      *)
(***************************************************************************)
GetSuccessorsKind == "GetSuccessorsRequest"
SendTransactionKind == "SendTransactionRequest"

SendTransactionRequest == [kind |-> SendTransactionKind]
SendTransactionResponse == [kind |-> "SendTransactionResponse", blocks |-> << >>]
GetSuccessorsResponse(blocks) == [kind |-> "GetSuccessorsResponse", blocks |-> blocks]

\* adapter_queues.has_in_flight_get_successors_requests()
HasInFlightGetSuccessorsRequests(reqs) ==
    \E i \in 1..Len(reqs) : reqs[i].kind = GetSuccessorsKind

\* adapter_queues.num_requests()
NumRequests(reqs) == Len(reqs)

NumGetSuccessorsRequests(reqs) ==
    Cardinality({i \in 1..Len(reqs) : reqs[i].kind = GetSuccessorsKind})

\* adapter_queues.push_request(req) -> Result<(), QueueFull>
PushRequest(reqs, cap, req) ==
    IF Len(reqs) >= cap
    THEN [ok |-> FALSE, requests |-> reqs]
    ELSE [ok |-> TRUE, requests |-> Append(reqs, req)]

\* adapter_queues.pop_response() -> Option<Response>
PopResponse(resps) ==
    IF resps = << >>
    THEN [some |-> FALSE, response |-> SendTransactionResponse, rest |-> << >>]
    ELSE [some |-> TRUE, response |-> Head(resps), rest |-> Tail(resps)]

\* The sequence s without its i-th element.
RemoveAt(s, i) == [j \in 1..(Len(s) - 1) |-> IF j < i THEN s[j] ELSE s[j + 1]]

(***************************************************************************)
(* Sync Driver: heartbeat.rs.                                              *)
(* A working state w carries the tree, the UTXO index, the log of insert   *)
(* attempts and whether a panic has unwound the tick.                      *)
(***************************************************************************)
Modes == {"Enabled", "Paused", "Disabled"}

\* GetSuccessorsRequest { anchor, processed_block_hashes } once the anchor
\* has been taken out of the hashes.  Vec::remove(0) panics on an empty
\* vector.
RemoveAnchor(hashes) ==
    IF hashes = << >>
    THEN [ok |-> FALSE, val |-> SendTransactionRequest]
    ELSE [ok  |-> TRUE,
          val |-> [kind |-> GetSuccessorsKind,
                   anchor |-> Head(hashes),
                   processed_block_hashes |-> Tail(hashes)]]

\* A request whose anchor is also left among the processed hashes.
KeepAnchor(hashes) ==
    IF hashes = << >>
    THEN [ok |-> FALSE, val |-> SendTransactionRequest]
    ELSE [ok  |-> TRUE,
          val |-> [kind |-> GetSuccessorsKind,
                   anchor |-> Head(hashes),
                   processed_block_hashes |-> hashes]]

GetSuccessorsRequestKeepAnchor(unstable) ==
    KeepAnchor([i \in 1..Len(unstable) |-> ToVec(BlockHash(unstable[i]))])

\* A request anchored at the last unstable block (pop() for remove(0)).
GetSuccessorsRequestLastAnchor(unstable) ==
    IF unstable = << >>
    THEN [ok |-> FALSE, val |-> SendTransactionRequest]
    ELSE [ok  |-> TRUE,
          val |-> [kind |-> GetSuccessorsKind,
                   anchor |-> ToVec(BlockHash(unstable[Len(unstable)])),
                   processed_block_hashes |->
                       [i \in 1..(Len(unstable) - 1) |-> ToVec(BlockHash(unstable[i]))]]]

\* get_successors_request(state)
GetSuccessorsRequest(unstable) ==
    RemoveAnchor([i \in 1..Len(unstable) |-> ToVec(BlockHash(unstable[i]))])

\* match store::insert_block(state, btc_block) { Ok(()) => {}, Err(..) =>
\* error!(..) }: either way the loop goes on.  The log keeps, for each
\* attempt, the block's hash, its parent, whether the parent was a member,
\* what insert_block returned and whether it left tree and index alone.
Matched(w, block, r) ==
    [w EXCEPT !.tree = r.tree,
              !.utxos = r.utxos,
              !.log = Append(@, [hash |-> BlockHash(block),
                                 parent |-> block.header.prev_blockhash,
                                 known |-> block.header.prev_blockhash
                                               \in HashesOf(w.tree),
                                 ok |-> r.ok,
                                 unchanged |-> r.tree = w.tree /\ r.utxos = w.utxos])]

\* One iteration of the loop over r.blocks, t being to_btc_block(&block).
InsertTranslated(w, t, policy) ==
    IF ~t.ok
    THEN [w EXCEPT !.panic = TRUE]
    ELSE Matched(w, t.val, InsertBlock(w, t.val, policy))

\* The loop taking the blocks of a response from the back.
RECURSIVE InsertBlocksReversed(_, _, _)
InsertBlocksReversed(w, blocks, policy) ==
    IF blocks = << >> \/ w.panic
    THEN w
    ELSE InsertBlocksReversed(
             InsertTranslated(w, ToBtcBlock(blocks[Len(blocks)]), policy),
             SubSeq(blocks, 1, Len(blocks) - 1), policy)

\* for block in r.blocks.into_iter() { .. }
RECURSIVE InsertBlocks(_, _, _)
InsertBlocks(w, blocks, policy) ==
    IF blocks = << >> \/ w.panic
    THEN w
    ELSE InsertBlocks(InsertTranslated(w, ToBtcBlock(Head(blocks)), policy),
                      Tail(blocks), policy)

\* A match whose SendTransactionResponse arm is unimplemented!().
ProcessResponseSendTxUnimplemented(w, response, policy) ==
    IF response.kind = "GetSuccessorsResponse"
    THEN IF \E i \in 1..Len(response.blocks) : ~ToBtcBlock(response.blocks[i]).ok
         THEN [w EXCEPT !.panic = TRUE]
         ELSE InsertBlocks(w, response.blocks, policy)
    ELSE [w EXCEPT !.panic = TRUE]

\* One arm of the match on response.response.  The block hashes of a
\* GetSuccessorsResponse are computed for the debug line before the first
\* insert, which translates every block of the response.
ProcessResponse(w, response, policy) ==
    IF response.kind = "GetSuccessorsResponse"
    THEN IF \E i \in 1..Len(response.blocks) : ~ToBtcBlock(response.blocks[i]).ok
         THEN [w EXCEPT !.panic = TRUE]
         ELSE InsertBlocks(w, response.blocks, policy)
    ELSE w

\* while let Some(response) = state.adapter_queues.pop_response() { .. }
RECURSIVE DrainResponses(_, _)
Popped(w, p, policy) ==
    IF w.panic \/ ~p.some
    THEN w
    ELSE DrainResponses(
             ProcessResponse([w EXCEPT !.responses = p.rest], p.response, policy),
             policy)

DrainResponses(w, policy) == Popped(w, PopResponse(w.responses), policy)

\* The value process_adapter_responses returns: store::main_chain_height.
WithHeight(w) ==
    [tree |-> w.tree, utxos |-> w.utxos, responses |-> w.responses,
     log |-> w.log, panic |-> w.panic,
     height |-> IF w.panic THEN 0 ELSE MainChainHeight(w.tree)]

\* process_adapter_responses(state, log)
ProcessAdapterResponses(s, policy) ==
    WithHeight(DrainResponses(
                   [tree |-> s.tree, utxos |-> s.utxos, responses |-> s.responses,
                    log |-> << >>, panic |-> FALSE],
                   policy))

NoRequest == [kind |-> "none"]
NoMetrics == [observed |-> FALSE, chain_height |-> 0, utxos_length |-> 0]

\* A match on push_request whose QueueFull arm is unreachable!() as well.
PushedPanicsOnFull(h, request, r) ==
    IF r.ok
    THEN [h EXCEPT !.requests = r.requests,
                   !.pushCalled = TRUE,
                   !.pushOk = TRUE,
                   !.request = request]
    ELSE [h EXCEPT !.panic = TRUE]

\* match state.adapter_queues.push_request(..) { Ok(()) => {},
\* Err(QueueFull) => error!(..) }
Pushed(h, request, r) ==
    [h EXCEPT !.requests = r.requests,
              !.pushCalled = TRUE,
              !.pushOk = r.ok,
              !.request = request]

PushBuilt(h, cap, g) ==
    IF ~g.ok
    THEN [h EXCEPT !.panic = TRUE]
    ELSE Pushed(h, g.val, PushRequest(h.requests, cap, g.val))

\* The body of `if !has_in_flight_get_successors_requests()`: build the
\* request and push it.
SendRequest(h, cap) ==
    PushBuilt(h, cap, GetSuccessorsRequest(GetUnstableBlocks(h.tree)))

\* Metrics that report the number of tree members as the chain height.
ObservedTreeLength(h) ==
    [h EXCEPT !.metrics = [observed |-> TRUE,
                           chain_height |-> Len(h.tree),
                           utxos_length |-> Len(h.utxos)]]

\* self.metrics.observe_chain_height(..), observe_utxos_length(..)
Observed(h) ==
    [h EXCEPT !.metrics = [observed |-> TRUE,
                           chain_height |-> h.height,
                           utxos_length |-> Len(h.utxos)]]

\* The Enabled arm without the in-flight check.
EnabledArmNoGuard(h, cap) == SendRequest(Observed(h), cap)

\* BitcoinFeature::Enabled => { observe metrics; if no GetSuccessors
\* request is in flight, send one }
EnabledArm(h, cap) ==
    IF ~HasInFlightGetSuccessorsRequests(h.requests)
    THEN SendRequest(Observed(h), cap)
    ELSE Observed(h)

\* The working state after process_adapter_responses.
Drained(s, d) ==
    [panic |-> d.panic, tree |-> d.tree, utxos |-> d.utxos,
     requests |-> s.requests, responses |-> d.responses,
     log |-> d.log, height |-> d.height, metrics |-> NoMetrics,
     pushCalled |-> FALSE, pushOk |-> FALSE, request |-> NoRequest]

\* A match whose Paused arm behaves as Enabled.
MatchFeaturePausedSends(h, feature, cap) ==
    IF h.panic
    THEN h
    ELSE IF feature \in {"Enabled", "Paused"}
         THEN EnabledArm(h, cap)
         ELSE h

\* match bitcoin_feature { Enabled => .., Paused | Disabled => {} }
MatchFeature(h, feature, cap) ==
    IF h.panic
    THEN h
    ELSE IF feature = "Enabled"
         THEN EnabledArm(h, cap)
         ELSE h

\* A heartbeat that returns at once when the feature is Disabled.
HeartbeatDisabledSkipsDrain(s, feature, cap, policy) ==
    IF feature = "Disabled"
    THEN Drained(s, [panic |-> FALSE, tree |-> s.tree, utxos |-> s.utxos,
                     responses |-> s.responses, log |-> << >>,
                     height |-> MainChainHeight(s.tree)])
    ELSE MatchFeature(Drained(s, ProcessAdapterResponses(s, policy)), feature, cap)

\* A heartbeat that builds its request from the tree as it was before the
\* responses were processed.
StaleRequest(h, s, cap, g) ==
    IF h.pushCalled
    THEN Pushed(h, g.val, PushRequest(s.requests, cap, g.val))
    ELSE h

HeartbeatRequestBeforeDrain(s, feature, cap, policy) ==
    StaleRequest(MatchFeature(Drained(s, ProcessAdapterResponses(s, policy)),
                              feature, cap),
                 s, cap, GetSuccessorsRequest(GetUnstableBlocks(s.tree)))

\* BitcoinCanister::heartbeat(bitcoin_state, bitcoin_feature)
Heartbeat(s, feature, cap, policy) ==
    MatchFeature(Drained(s, ProcessAdapterResponses(s, policy)), feature, cap)

(***************************************************************************)
(* The state machine.                                                      *)
(*   tree, utxos, requests, responses : the replicated Bitcoin state       *)
(*   capacity  : capacity of the request queue (fixed at construction)     *)
(*   reinsert  : what insert does with a block already in the tree         *)
(*   last      : what the last step was and, for a tick, what it observed  *)
(*   everEnabled : whether some tick has run with the feature Enabled      *)
(***************************************************************************)
VARIABLES tree, utxos, requests, responses, capacity, reinsert, last, everEnabled

vars == <<tree, utxos, requests, responses, capacity, reinsert, last, everEnabled>>

\* ReplicatedBitcoinState::default()
DefaultState ==
    [tree |-> << GenesisBlock >>, utxos |-> << >>,
     requests |-> << >>, responses |-> << >>]

CurrentState ==
    [tree |-> tree, utxos |-> utxos, requests |-> requests, responses |-> responses]

NoTick ==
    [kind |-> "none", mode |-> "Disabled", outcome |-> "ok", pre |-> DefaultState,
     log |-> << >>, metrics |-> NoMetrics, pushCalled |-> FALSE, pushOk |-> FALSE,
     request |-> NoRequest]

Init ==
    /\ tree = DefaultState.tree
    /\ utxos = DefaultState.utxos
    /\ requests = DefaultState.requests
    /\ responses = DefaultState.responses
    /\ capacity \in {1, MaxCapacity}
    /\ reinsert \in ReinsertPolicies
    /\ last = NoTick
    /\ everEnabled = FALSE

\* One scheduling tick: heartbeat(state, mode).  A panic unwinds the call
\* and no state is returned: the state stays the one passed in.
Tick(mode) ==
    \E h \in {Heartbeat(CurrentState, mode, capacity, reinsert)} :
        /\ IF h.panic
           THEN UNCHANGED <<tree, utxos, requests, responses>>
           ELSE /\ tree' = h.tree
                /\ utxos' = h.utxos
                /\ requests' = h.requests
                /\ responses' = h.responses
        /\ last' = [kind |-> "tick", mode |-> mode,
                    outcome |-> IF h.panic THEN "panic" ELSE "ok",
                    pre |-> CurrentState, log |-> h.log, metrics |-> h.metrics,
                    pushCalled |-> h.pushCalled, pushOk |-> h.pushOk,
                    request |-> h.request]
        /\ everEnabled' = (everEnabled \/ mode = "Enabled")
        /\ UNCHANGED <<capacity, reinsert>>

\* Another entry point of the canister queues a SendTransactionRequest.
SubmitSendTransaction ==
    \E r \in {PushRequest(requests, capacity, SendTransactionRequest)} :
        /\ r.ok
        /\ requests' = r.requests
        /\ last' = NoTick
        /\ UNCHANGED <<tree, utxos, responses, capacity, reinsert, everEnabled>>

\* The adapter answers the outstanding GetSuccessorsRequest with any blocks.
DeliverGetSuccessors ==
    \E i \in 1..Len(requests) :
        \E blocks \in SeqUpTo(WireBlocks, MaxBlocks) :
            /\ requests[i].kind = GetSuccessorsKind
            /\ Len(responses) < MaxResponses
            /\ (reinsert = "attach" => Len(tree) + Len(blocks) <= MaxTree)
            /\ requests' = RemoveAt(requests, i)
            /\ responses' = Append(responses, GetSuccessorsResponse(blocks))
            /\ last' = NoTick
            /\ UNCHANGED <<tree, utxos, capacity, reinsert, everEnabled>>

\* The adapter answers an outstanding SendTransactionRequest.
DeliverSendTransaction ==
    \E i \in 1..Len(requests) :
        /\ requests[i].kind = SendTransactionKind
        /\ Len(responses) < MaxResponses
        /\ requests' = RemoveAt(requests, i)
        /\ responses' = Append(responses, SendTransactionResponse)
        /\ last' = NoTick
        /\ UNCHANGED <<tree, utxos, capacity, reinsert, everEnabled>>

Next ==
    \/ \E mode \in Modes : Tick(mode)
    \/ SubmitSendTransaction
    \/ DeliverGetSuccessors
    \/ DeliverSendTransaction

Spec == Init /\ [][Next]_vars

\* The canister with the feature Enabled and no traffic but the block
\* synchronization: the host calls heartbeat on every round, and the adapter
\* answers a GetSuccessorsRequest that stays outstanding.
NextLive ==
    \/ Tick("Enabled")
    \/ DeliverGetSuccessors

LiveSpec ==
    /\ Init
    /\ [][NextLive]_vars
    /\ WF_vars(Tick("Enabled"))
    /\ WF_vars(DeliverGetSuccessors)

(***************************************************************************)
(* Properties.                                                             *)
(***************************************************************************)
TickDone == last.kind = "tick"
TickOk == last.kind = "tick" /\ last.outcome = "ok"

\* The blocks of a queue of responses, in FIFO order.
RECURSIVE BlocksOf(_)
BlocksOf(resps) ==
    IF resps = << >>
    THEN << >>
    ELSE Head(resps).blocks \o BlocksOf(Tail(resps))

HashVecs(blocks) == [i \in 1..Len(blocks) |-> ToVec(BlockHash(blocks[i]))]

\* C1: in every reachable state the adapter queue holds at most one
\* outstanding GetSuccessors request.
C1_SingleInFlight == NumGetSuccessorsRequests(requests) <= 1

\* An Enabled tick has run with a GetSuccessors request in flight and room
\* left in the request queue.
C1_Witness ==
    /\ TickOk
    /\ last.mode = "Enabled"
    /\ HasInFlightGetSuccessorsRequests(last.pre.requests)
    /\ NumGetSuccessorsRequests(requests) = 1
    /\ Len(requests) < capacity

\* C2: a Paused or Disabled tick never calls push_request and leaves the
\* number of requests (and whether a GetSuccessors request is in flight) as
\* it was; as long as no Enabled tick has run, no GetSuccessors request is
\* in flight.
C2_FeatureGating ==
    /\ (TickDone /\ last.mode \in {"Paused", "Disabled"}) =>
           /\ ~last.pushCalled
           /\ NumRequests(requests) = NumRequests(last.pre.requests)
           /\ HasInFlightGetSuccessorsRequests(requests)
                  = HasInFlightGetSuccessorsRequests(last.pre.requests)
    /\ ~everEnabled => ~HasInFlightGetSuccessorsRequests(requests)

\* A Paused tick has drained a response with an accepted block while no
\* request was in flight and the request queue was empty.
C2_Witness ==
    /\ TickOk
    /\ last.mode = "Paused"
    /\ \E i \in 1..Len(last.log) : last.log[i].ok
    /\ requests = << >>

\* C3: an Enabled tick on the default state leaves exactly one request,
\* anchored at the hash of the tree's only member, with no processed hashes.
C3_FirstRequest ==
    (TickDone /\ last.mode = "Enabled" /\ last.pre = DefaultState) =>
        /\ last.outcome = "ok"
        /\ requests = << [kind |-> GetSuccessorsKind,
                          anchor |-> ToVec(BlockHash(last.pre.tree[1])),
                          processed_block_hashes |-> << >>] >>

C3_Witness ==
    /\ TickOk
    /\ last.mode = "Enabled"
    /\ last.pre = DefaultState
    /\ NumRequests(requests) = 1

\* C4: a tick, in any mode, on a state with a GetSuccessors request in
\* flight calls no push_request and leaves the request queue as it was.
C4_NoDuplication ==
    (TickDone /\ HasInFlightGetSuccessorsRequests(last.pre.requests)) =>
        /\ ~last.pushCalled
        /\ requests = last.pre.requests

\* An Enabled tick has drained a response while a GetSuccessors request was
\* in flight and the request queue had room.
C4_Witness ==
    /\ TickOk
    /\ last.mode = "Enabled"
    /\ HasInFlightGetSuccessorsRequests(last.pre.requests)
    /\ Len(last.pre.requests) < capacity
    /\ last.pre.responses # << >>

\* C5: after a tick the response queue is empty and an insert has been
\* attempted for every block of every response queued at its start, in
\* FIFO order.
C5_DrainCompleteness ==
    TickDone =>
        /\ responses = << >>
        /\ Len(last.log) = Len(BlocksOf(last.pre.responses))
        /\ \A i \in 1..Len(last.log) :
               /\ ToBtcBlock(BlocksOf(last.pre.responses)[i]).ok
               /\ last.log[i].hash
                      = BlockHash(ToBtcBlock(BlocksOf(last.pre.responses)[i]).val)

\* What holds of the drain: C5 for the ticks that do not panic.
DrainCompleteWhenNoPanic == TickOk => C5_DrainCompleteness

\* C6: every tick completes and returns a state.
C6_TickNeverFails == TickDone => last.outcome = "ok"

\* Whether wire block b names, in a well-formed field, a parent that is no
\* member of blocks.
ParentUnknown(b, blocks) ==
    /\ FromSlice(b.header.prev_blockhash).ok
    /\ FromSlice(b.header.prev_blockhash).val \notin HashesOf(blocks)

\* C7: an insert of a block whose parent is no member of the tree returns
\* BlockDoesNotExtendTree and leaves tree and UTXO index unchanged; a tick
\* whose responses hold only such blocks ends with the tree and the UTXO
\* index it started with.
C7_RejectionPurity ==
    TickDone =>
        /\ \A i \in 1..Len(last.log) :
               ~last.log[i].known => (~last.log[i].ok /\ last.log[i].unchanged)
        /\ (\A i \in 1..Len(BlocksOf(last.pre.responses)) :
                ParentUnknown(BlocksOf(last.pre.responses)[i], last.pre.tree)) =>
               /\ last.outcome = "ok"
               /\ tree = last.pre.tree
               /\ utxos = last.pre.utxos
               /\ Len(last.log) = Len(BlocksOf(last.pre.responses))

\* A tick has drained two blocks with unknown parents, one of them a block
\* whose parent was delivered but never accepted.
C7_Witness ==
    /\ TickOk
    /\ Len(last.log) = 2
    /\ \A i \in 1..Len(last.log) : ~last.log[i].known
    /\ \E i \in 1..Len(last.log) : last.log[i].parent = HashA
    /\ Len(tree) > 1

\* C8: the request a tick builds has the hash of the first unstable block
\* as anchor and the hashes of the others, in order, as
\* processed_block_hashes.
C8_AnchorCorrectness ==
    (TickDone /\ last.request # NoRequest) =>
        /\ last.request.anchor = HashVecs(GetUnstableBlocks(tree))[1]
        /\ last.request.processed_block_hashes
               = Tail(HashVecs(GetUnstableBlocks(tree)))

\* A request has been built from a tree of at least three blocks, with
\* blocks accepted by the same tick.
C8_Witness ==
    /\ TickOk
    /\ last.request # NoRequest
    /\ Len(last.request.processed_block_hashes) >= 2
    /\ Len(tree) > Len(last.pre.tree)

\* C10: every block of the tree but the root has, as parent, a block that
\* entered the tree before it.
C10_TreeLinkage ==
    /\ tree # << >>
    /\ tree[1] = GenesisBlock
    /\ \A i \in 2..Len(tree) :
           \E j \in 1..(i - 1) : BlockHash(tree[j]) = tree[i].header.prev_blockhash

\* The tree holds a fork at the root and a chain of two blocks, after a
\* tick that rejected a block.
C10_Witness ==
    /\ TickOk
    /\ \E i, j \in 2..Len(tree) :
           /\ i # j
           /\ tree[i].header.prev_blockhash = GenesisHash
           /\ tree[j].header.prev_blockhash = GenesisHash
    /\ \E i \in 2..Len(tree) : tree[i].header.prev_blockhash = HashA
    /\ \E i \in 1..Len(last.log) : ~last.log[i].ok

\* Whether a wire block translates (no hash field of the wrong width).
Translates(b) == ToBtcBlock(b).ok

\* C11: a block with a hash field of the wrong width is skipped alone: the
\* tick completes, and an insert has been attempted, in order, for every
\* other block of the responses queued at its start.
C11_MalformedIsLocal ==
    (TickDone /\ \E i \in 1..Len(BlocksOf(last.pre.responses)) :
                     ~Translates(BlocksOf(last.pre.responses)[i])) =>
        /\ last.outcome = "ok"
        /\ responses = << >>
        /\ [i \in 1..Len(last.log) |-> ToVec(last.log[i].hash)]
               = HashVecs([i \in 1..Len(SelectSeq(BlocksOf(last.pre.responses),
                                                  Translates)) |->
                               ToBtcBlock(SelectSeq(BlocksOf(last.pre.responses),
                                                    Translates)[i]).val])

\* Whether a logged insert attempt added its block to the tree.
Attached(e) == e.ok /\ ~e.unchanged

LogHashes(entries) == [i \in 1..Len(entries) |-> ToVec(entries[i].hash)]

\* C13: a tick adds to the tree exactly the blocks whose insert succeeded
\* when it was attempted, in that order: a block rejected for its unknown
\* parent is not kept and does not enter the tree when the parent arrives
\* later.  The response [B, A] on the default tree leaves only A above the
\* root.
C13_NoBuffering ==
    TickDone =>
        /\ HashVecs(tree)
               = HashVecs(last.pre.tree)
                     \o (IF last.outcome = "ok"
                         THEN LogHashes(SelectSeq(last.log, Attached))
                         ELSE << >>)
        /\ (/\ last.pre.tree = << GenesisBlock >>
            /\ BlocksOf(last.pre.responses) = << WireB, WireA >>) =>
               HashVecs(tree) = << ToVec(GenesisHash), ToVec(HashA) >>

\* A tick has rejected B for its unknown parent A and then accepted A.
C13_Witness ==
    /\ TickOk
    /\ Len(last.log) = 2
    /\ last.log[1].hash = HashB /\ ~last.log[1].ok
    /\ last.log[2].hash = HashA /\ last.log[2].ok
    /\ HashB \notin HashesOf(tree)
    /\ HashA \in HashesOf(tree)

\* C14: a tick in mode Paused or Disabled ends exactly as a tick in mode
\* Enabled on the same state would, as far as the drain goes: same outcome,
\* same attempts, same tree, same UTXO index, the response queue empty.  The
\* request queue is where they differ: untouched in Paused and Disabled,
\* untouched or longer by the one new request in Enabled.
C14_DrainModeIndependent ==
    (TickDone /\ last.mode # "Enabled") =>
        \A e \in {Heartbeat(last.pre, "Enabled", capacity, reinsert)} :
            /\ (last.outcome = "panic") <=> e.panic
            /\ last.outcome = "ok" =>
                   /\ responses = << >> /\ e.responses = << >>
                   /\ tree = e.tree
                   /\ utxos = e.utxos
                   /\ last.log = e.log
                   /\ requests = last.pre.requests
                   /\ \/ e.requests = requests
                      \/ e.pushOk /\ e.requests = Append(requests, e.request)

\* A Paused tick has drained a response and attached a block, on a state
\* where an Enabled tick would also have sent a request.
C14_Witness ==
    /\ TickOk
    /\ last.mode = "Paused"
    /\ last.pre.responses # << >>
    /\ \E i \in 1..Len(last.log) : Attached(last.log[i])
    /\ Heartbeat(last.pre, "Enabled", capacity, reinsert).pushOk

\* C15 as stated: every tick, in every mode, reports the chain height and
\* the size of the UTXO index.
C15_ReportedEveryTick ==
    TickDone =>
        /\ last.metrics.observed
        /\ last.metrics.chain_height = MainChainHeight(tree)
        /\ last.metrics.utxos_length = Len(utxos)

\* C15 amended: the two metrics are reported by the ticks in mode Enabled
\* that get past the drain, and by no other tick; the values are the chain
\* height and the index size of the state the tick returns; and the state a
\* tick returns is the one the drain left, reported or not.
C15_ReportedWhenEnabled ==
    TickDone =>
        /\ last.metrics.observed <=> (last.mode = "Enabled" /\ last.outcome = "ok")
        /\ last.metrics.observed =>
               /\ last.metrics.chain_height = MainChainHeight(tree)
               /\ last.metrics.utxos_length = Len(utxos)
        /\ last.outcome = "ok" =>
               \A d \in {ProcessAdapterResponses(last.pre, reinsert)} :
                   tree = d.tree /\ utxos = d.utxos /\ responses = d.responses

\* A Paused tick has made the chain higher and reported nothing.
C15_Witness ==
    /\ TickOk
    /\ last.mode = "Paused"
    /\ MainChainHeight(tree) > MainChainHeight(last.pre.tree)
    /\ ~last.metrics.observed

\* C16, the transitions: the queue goes from Idle to Awaiting only by the
\* successful push of an Enabled tick, which has emptied the response queue
\* first, and from Awaiting to Idle only by the delivery of a response.
C16_Transitions ==
    [][/\ (/\ ~HasInFlightGetSuccessorsRequests(requests)
           /\ HasInFlightGetSuccessorsRequests(requests')) =>
              /\ last'.kind = "tick" /\ last'.mode = "Enabled"
              /\ last'.outcome = "ok" /\ last'.pushOk
              /\ last'.pre = CurrentState
              /\ responses' = << >>
       /\ (/\ HasInFlightGetSuccessorsRequests(requests)
           /\ ~HasInFlightGetSuccessorsRequests(requests')) =>
              /\ Len(responses') = Len(responses) + 1
              /\ responses'[Len(responses')].kind = "GetSuccessorsResponse"
              /\ SubSeq(responses', 1, Len(responses)) = responses
              /\ tree' = tree]_vars

\* C16, the progress: there is no terminal state.  In every reachable state
\* either a request is outstanding, which the adapter will answer, or a
\* tick in mode Enabled completes and, with room in the queue, pushes the
\* next request; so with heartbeat called for ever and every request
\* answered, requests are issued again and again.
C16_NoTerminalState ==
    \/ HasInFlightGetSuccessorsRequests(requests)
    \/ \A h \in {Heartbeat(CurrentState, "Enabled", capacity, reinsert)} :
           /\ ~h.panic
           /\ Len(requests) < capacity => h.pushOk

\* Whether every block of the queued responses translates, i.e. whether the
\* drain of these responses runs to its end.
AllTranslate(resps) ==
    \A i \in 1..Len(BlocksOf(resps)) : Translates(BlocksOf(resps)[i])

\* C17: an Enabled tick that gets to push while the request queue is full
\* returns normally, with the request queue as it found it and tree, UTXO
\* index and response queue as the drain left them; nothing of the refused
\* request is kept: an Enabled tick that finds room and no request in flight
\* pushes a request computed from the tree as it is at the end of that tick.
C17_QueueFullRecoverable ==
    (/\ TickDone /\ last.mode = "Enabled"
     /\ AllTranslate(last.pre.responses)
     /\ ~HasInFlightGetSuccessorsRequests(last.pre.requests)) =>
        /\ last.outcome = "ok"
        /\ last.pushCalled
        /\ \A d \in {ProcessAdapterResponses(last.pre, reinsert)} :
               tree = d.tree /\ utxos = d.utxos /\ responses = << >>
        /\ last.request = [kind |-> GetSuccessorsKind,
                           anchor |-> ToVec(BlockHash(tree[1])),
                           processed_block_hashes |-> Tail(HashVecs(tree))]
        /\ IF Len(last.pre.requests) >= capacity
           THEN ~last.pushOk /\ requests = last.pre.requests
           ELSE last.pushOk /\ requests = Append(last.pre.requests, last.request)

\* An Enabled tick has attached a block and then found the request queue
\* full.
C17_Witness ==
    /\ TickOk
    /\ last.mode = "Enabled"
    /\ last.pushCalled /\ ~last.pushOk
    /\ \E i \in 1..Len(last.log) : Attached(last.log[i])
    /\ requests = last.pre.requests

\* C18: the request a tick issues is built after the drain: the hash of
\* every block the tree accepted during the tick is the anchor of that
\* request or a member of its processed_block_hashes.
C18_DrainPrecedesRequest ==
    (TickDone /\ last.pushOk) =>
        \A i \in 1..Len(last.log) :
            last.log[i].ok =>
                \/ ToVec(last.log[i].hash) = last.request.anchor
                \/ \E j \in 1..Len(last.request.processed_block_hashes) :
                       last.request.processed_block_hashes[j] = ToVec(last.log[i].hash)

\* A tick has attached a block and issued a request.
C18_Witness ==
    /\ TickOk
    /\ last.pushOk
    /\ \E i \in 1..Len(last.log) : Attached(last.log[i])
    /\ Len(last.request.processed_block_hashes) >= 1

\* C19: the enumeration of unstable blocks is never empty, so the removal
\* of the anchor never fails: a tick is aborted only by a malformed hash
\* in a queued response, and an Enabled tick that completes with no request
\* in flight has built a request.
C19_UnstableNeverEmpty ==
    /\ GetUnstableBlocks(tree) # << >>
    /\ (TickDone /\ last.outcome = "panic") => ~AllTranslate(last.pre.responses)
    /\ (/\ TickOk /\ last.mode = "Enabled"
        /\ ~HasInFlightGetSuccessorsRequests(last.pre.requests)) =>
           /\ GetUnstableBlocks(last.pre.tree) # << >>
           /\ last.request.kind = GetSuccessorsKind

\* An Enabled tick on a tree that holds the root alone has built its request
\* from the root.
C19_Witness ==
    /\ TickOk
    /\ last.mode = "Enabled"
    /\ Len(GetUnstableBlocks(tree)) = 1
    /\ last.pushCalled
    /\ last.request.anchor = ToVec(GenesisHash)

IsGetSuccessorsResponse(r) == r.kind = "GetSuccessorsResponse"

\* C20: SendTransactionResponses are popped and ignored: a tick ends as the
\* drain of the same queue without them would end (same outcome, same
\* attempts, same tree, same UTXO index) and with the response queue empty;
\* when the queue holds nothing else, tree and index are untouched and the
\* request queue changes by at most the push of the Enabled arm.  And the
\* main-chain height after a tick is never below the height before it.
C20_SendTransactionIgnored ==
    TickDone =>
        /\ MainChainHeight(tree) >= MainChainHeight(last.pre.tree)
        /\ \A f \in {ProcessAdapterResponses(
                        [last.pre EXCEPT !.responses =
                             SelectSeq(@, IsGetSuccessorsResponse)], reinsert)} :
               /\ (last.outcome = "panic") <=> f.panic
               /\ last.outcome = "ok" =>
                      /\ tree = f.tree /\ utxos = f.utxos /\ last.log = f.log
                      /\ responses = << >>
        /\ SelectSeq(last.pre.responses, IsGetSuccessorsResponse) = << >> =>
               /\ last.outcome = "ok"
               /\ tree = last.pre.tree /\ utxos = last.pre.utxos
               /\ \/ requests = last.pre.requests
                  \/ last.pushOk /\ requests = Append(last.pre.requests, last.request)

\* A tick has drained a SendTransactionResponse together with a
\* GetSuccessorsResponse whose block it attached.
C20_Witness ==
    /\ TickOk
    /\ Len(last.pre.responses) = 2
    /\ \E i \in 1..2 : last.pre.responses[i] = SendTransactionResponse
    /\ \E i \in 1..Len(last.log) : Attached(last.log[i])
    /\ MainChainHeight(tree) > MainChainHeight(last.pre.tree)

=============================================================================
